---- MODULE Spec2Model ----
(***************************************************************************)
(* Stateful deserialization (serde_state / serde_seed).                    *)
(*                                                                         *)
(* Three traversals are modelled, each as a stack machine over the value   *)
(* being decoded or encoded:                                               *)
(*   Spec      Node::deserialize: the Plain / Marked / Reference tree with *)
(*             the id -> Rc<Node> registry (test_de_seed.rs, 281-359)      *)
(*   SpecSeed  deserialize_state over the counter seed Seed(i32)           *)
(*             (test_de_seed.rs, 18-279)                                   *)
(*   SpecSer   serialize_seed over the Cell<i32> seed (lib.rs, 29-107)     *)
(***************************************************************************)
EXTENDS Integers, Sequences, FiniteSets, TLC

VARIABLES
    status,      \* "idle", "running", "Ok" or "Err": where the top-level call is
    stack,       \* the call stack of the traversal, innermost frame last
    result,      \* what the top-level call returned
    log,         \* history of the current call: one entry per visit
    map,         \* the registry, IdToShared<Rc<Node>>: id -> address
    heap,        \* the Rc<Node> allocations of the current call, by address
    prevMarked,  \* ids registered by earlier top-level calls
    seed,        \* the counter context, Seed.0 / Cell<i32>
    seed0,       \* the value the caller initialised the counter with
    root         \* the type (or field list) the caller asked for

vars == <<status, stack, result, log, map, heap, prevMarked, seed, seed0, root>>

nodeVars == <<map, heap, prevMarked>>
seedVars == <<seed, seed0, root>>

----------------------------------------------------------------------------
(* Bounds *)

\* largest id a Marked token of the stream carries
MaxId == 0
\* most Plain and Marked variants one stream holds below its root
MaxNodes == 3

Ids == 0..MaxId

\* a Reference token may also carry an id that no Marked token carries
RefIds == 0..(MaxId + 1)

\* the data of the root and of the nodes below it (test_node_deserialize: 'a', 'b')
RootData == "a"
Chars == {"b"}

----------------------------------------------------------------------------
(* Values shared by the three traversals *)

\* Option::None for an Option<Rc<Node>>; addresses of allocations start at 1
Null == 0

NoResult == [tag |-> "None"]

\* Error::custom(format_args!("missing id {}", id))
MissingId(id) == [tag |-> "Err", msg |-> "missing id", id |-> id]

\* an error of the deserializer itself (a token that fits no variant)
InvalidToken == [tag |-> "Err", msg |-> "invalid token", id |-> Null]

OkResult(v) == [tag |-> "Ok", value |-> v]

Top == stack[Len(stack)]

Pop(stk) == SubSeq(stk, 1, Len(stk) - 1)

ReplaceTop(stk, f) == [stk EXCEPT ![Len(stk)] = f]

----------------------------------------------------------------------------
(* The registry: type NodeMap = HashMap<Id, Rc<Node>> *)

\* IdToNode::default()
IdToNodeDefault == <<>>

\* seed.get(&id).is_some()
MapContains(m, id) == id \in DOMAIN m

\* seed.get(&id)
MapGet(m, id) == IF id \in DOMAIN m THEN m[id] ELSE Null

\* seed.insert(id, Rc::clone(&node)): HashMap::insert replaces an existing entry
MapInsert(m, id, h) == (id :> h) @@ m

\* Rc::new(Node { data, left, right }): a new allocation at the next address
RcNew(h, node) == Append(h, node)

----------------------------------------------------------------------------
(* Node frames: a struct Node or a Variant::Plain / Variant::Marked being   *)
(* decoded; next is the field the derived visitor decodes next              *)

NodeFrame(kind, id, data) ==
    [kind |-> kind, id |-> id, data |-> data, left |-> Null, right |-> Null, next |-> "left"]

\* fields are visited in declaration order: left, then right
SetField(f, v) ==
    IF f.next = "left" THEN [f EXCEPT !.left = v, !.next = "right"]
    ELSE [f EXCEPT !.right = v, !.next = "done"]

NodeOf(f) == [data |-> f.data, left |-> f.left, right |-> f.right]

\* ids of the Marked variants whose fields are still being decoded
OpenMarked(stk) == {stk[i].id : i \in {j \in 1..Len(stk) : stk[j].kind = "Marked"}}

\* nodes begun in this call: allocated ones and the variants still open
Begun == Len(heap) + Len(stack) - 1

MarkedIds(l) == {l[i].id : i \in {j \in 1..Len(l) : l[j].ev = "marked"}}

----------------------------------------------------------------------------
(* Node::deserialize and deserialize_option_node *)

Init ==
    /\ status = "idle"
    /\ stack = <<>>
    /\ result = NoResult
    /\ log = <<>>
    /\ map = IdToNodeDefault
    /\ heap = <<>>
    /\ prevMarked = {}
    /\ seed = 0
    /\ seed0 = 0
    /\ root = "none"

\* a top-level call that keeps using the registry of the call before it
StartDecodeSharedRegistry ==
    /\ status \in {"idle", "Ok", "Err"}
    /\ stack' = <<NodeFrame("Node", Null, RootData)>>
    /\ heap' = <<>>
    /\ log' = <<>>
    /\ result' = NoResult
    /\ status' = "running"
    /\ prevMarked' = prevMarked \cup MarkedIds(log)
    /\ UNCHANGED <<map, seedVars>>

\* impl Deserialize for Node: a fresh registry, then the derived
\* Node::deserialize_state, which reads data and then decodes left and right
StartDecode ==
    /\ status \in {"idle", "Ok", "Err"}
    /\ stack' = <<NodeFrame("Node", Null, RootData)>>
    /\ map' = IdToNodeDefault
    /\ heap' = <<>>
    /\ log' = <<>>
    /\ result' = NoResult
    /\ status' = "running"
    /\ prevMarked' = prevMarked \cup MarkedIds(log)
    /\ UNCHANGED seedVars

FieldPending == status = "running" /\ stack # <<>> /\ Top.next # "done"

\* deserialize_option_node, variant = None
DecodeNone ==
    /\ FieldPending
    /\ stack' = ReplaceTop(stack, SetField(Top, Null))
    /\ UNCHANGED <<status, result, log, nodeVars, seedVars>>

RefEntry(id, addr) == [ev |-> "ref", id |-> id, addr |-> addr, open |-> OpenMarked(stack)]

\* a Reference arm that answers a missing id with Ok(None)
DecodeReferenceLenient ==
    /\ FieldPending
    /\ \E id \in RefIds :
        /\ stack' = ReplaceTop(stack, SetField(Top, MapGet(map, id)))
        /\ log' = Append(log, RefEntry(id, MapGet(map, id)))
    /\ UNCHANGED <<status, result, nodeVars, seedVars>>

\* a Reference arm that records the error and goes on with the next field
DecodeReferenceNoAbort ==
    /\ FieldPending
    /\ \E id \in RefIds :
        /\ stack' = ReplaceTop(stack, SetField(Top, MapGet(map, id)))
        /\ log' = Append(log, RefEntry(id, MapGet(map, id)))
        /\ result' = IF MapContains(map, id) THEN result ELSE MissingId(id)
    /\ UNCHANGED <<status, nodeVars, seedVars>>

\* deserialize_option_node, Variant::Reference(id)
DecodeReference ==
    /\ FieldPending
    /\ \E id \in RefIds :
        IF MapContains(map, id)
        THEN /\ stack' = ReplaceTop(stack, SetField(Top, MapGet(map, id)))
             /\ log' = Append(log, RefEntry(id, MapGet(map, id)))
             /\ UNCHANGED <<status, result>>
        ELSE /\ stack' = <<>>
             /\ status' = "Err"
             /\ result' = MissingId(id)
             /\ log' = Append(log, RefEntry(id, Null))
    /\ UNCHANGED <<nodeVars, seedVars>>

\* Option::<Variant>::deserialize_state(seed, deserializer)? fails in the
\* deserializer: the error is returned as it is
DecodeInvalid ==
    /\ FieldPending
    /\ stack' = <<>>
    /\ status' = "Err"
    /\ result' = InvalidToken
    /\ log' = Append(log, [ev |-> "invalid", id |-> Null, addr |-> Null,
                           open |-> OpenMarked(stack)])
    /\ UNCHANGED <<nodeVars, seedVars>>

\* Option::<Variant>::deserialize_state enters Variant::Plain { data, left, right }
BeginPlain ==
    /\ FieldPending
    /\ Begun < MaxNodes
    /\ \E d \in Chars : stack' = Append(stack, NodeFrame("Plain", Null, d))
    /\ UNCHANGED <<status, result, log, nodeVars, seedVars>>

\* a Marked variant that registers its id before its fields are decoded
BeginMarkedRegisterEarly ==
    /\ FieldPending
    /\ Begun < MaxNodes
    /\ \E id \in Ids, d \in Chars :
        /\ stack' = Append(stack, NodeFrame("Marked", id, d))
        /\ map' = MapInsert(map, id, Len(heap) + 1)
    /\ UNCHANGED <<status, result, log, heap, prevMarked, seedVars>>

\* Option::<Variant>::deserialize_state enters Variant::Marked { id, data, left, right }
BeginMarked ==
    /\ FieldPending
    /\ Begun < MaxNodes
    /\ \E id \in Ids, d \in Chars : stack' = Append(stack, NodeFrame("Marked", id, d))
    /\ UNCHANGED <<status, result, log, nodeVars, seedVars>>

VariantDone(kind) ==
    status = "running" /\ Len(stack) > 1 /\ Top.kind = kind /\ Top.next = "done"

\* deserialize_option_node, Variant::Plain arm: Ok(Some(Rc::new(Node { .. })))
FinishPlain ==
    /\ VariantDone("Plain")
    /\ heap' = RcNew(heap, NodeOf(Top))
    /\ stack' = ReplaceTop(Pop(stack), SetField(stack[Len(stack) - 1], Len(heap')))
    /\ log' = Append(log, [ev |-> "plain", id |-> Null, addr |-> Len(heap'), open |-> {}])
    /\ UNCHANGED <<status, result, map, prevMarked, seedVars>>

\* deserialize_option_node, Variant::Marked arm: Rc::new, seed.insert, Ok(Some(node))
FinishMarked ==
    /\ VariantDone("Marked")
    /\ heap' = RcNew(heap, NodeOf(Top))
    /\ map' = MapInsert(map, Top.id, Len(heap'))
    /\ stack' = ReplaceTop(Pop(stack), SetField(stack[Len(stack) - 1], Len(heap')))
    /\ log' = Append(log, [ev |-> "marked", id |-> Top.id, addr |-> Len(heap'), open |-> {}])
    /\ UNCHANGED <<status, result, prevMarked, seedVars>>

\* the derived Node::deserialize_state returns Ok(Node { data, left, right })
FinishRoot ==
    /\ status = "running" /\ Len(stack) = 1 /\ Top.kind = "Node" /\ Top.next = "done"
    /\ result' = OkResult(NodeOf(Top))
    /\ status' = "Ok"
    /\ stack' = <<>>
    /\ UNCHANGED <<log, nodeVars, seedVars>>

Next ==
    \/ StartDecode
    \/ DecodeNone
    \/ DecodeReference
    \/ DecodeInvalid
    \/ BeginPlain
    \/ BeginMarked
    \/ FinishPlain
    \/ FinishMarked
    \/ FinishRoot

Spec == Init /\ [][Next]_vars

----------------------------------------------------------------------------
(* deserialize_state over the counter seed: the types of test_de_seed.rs    *)
(* and the Struct of the crate documentation                                *)

\* most VecNewtype layers around the type the caller asks for
MaxVecDepth == 1
\* most elements of one sequence
MaxSeqLen == 2
\* largest value the caller initialises the counter with
MaxSeed0 == 1

BaseTypes == {"Inner", "SeedStruct", "Newtype", "GenericType", "Enum", "Struct"}

\* a type: base wrapped in vec layers of VecNewtype<..>
Type(k, b) == [vec |-> k, base |-> b]

InnerType == Type(0, "Inner")

Types == {Type(k, b) : k \in 0..MaxVecDepth, b \in BaseTypes}

TypeName(t) == IF t.vec > 0 THEN "VecNewtype" ELSE t.base

\* the T of VecNewtype<T>
ElemType(t) == IF t.vec > 0 THEN Type(t.vec - 1, t.base) ELSE t

Field(name, mode, with) == [name |-> name, mode |-> mode, with |-> with]

\* the serde attributes of each field, in declaration order
Fields(ty, variant) ==
    CASE ty = "SeedStruct" ->
           <<Field("value", "deserialize_state", ""),
             Field("value2", "deserialize_state_with", "deserialize_inner"),
             Field("value3", "plain", "")>>
      [] ty = "Newtype" ->
           <<Field("0", "deserialize_state_with", "deserialize_inner")>>
      [] ty = "VecNewtype" ->
           <<Field("0", "deserialize_state_with", "deserialize_vec")>>
      [] ty = "GenericType" ->
           <<Field("inner", "deserialize_state_with", "deserialize_inner"),
             Field("t", "deserialize_state_with", "deserialize_nested_seed")>>
      [] ty = "Enum" /\ variant = "Inner" ->
           <<Field("0", "deserialize_state_with", "deserialize_inner")>>
      [] ty = "Enum" /\ variant = "Inner2" ->
           <<Field("0", "plain", ""),
             Field("1", "deserialize_state_with", "deserialize_inner")>>
      [] ty = "Struct" ->
           <<Field("value", "deserialize_state", ""),
             Field("value2", "deserialize_state", ""),
             Field("value3", "plain", ""),
             Field("value4", "plain", "")>>
      [] OTHER -> <<>>

Variants(ty) == IF ty = "Enum" THEN {"Inner", "Inner2"} ELSE {""}

\* impl AsMut<Seed> for Seed, for GenericTypeSeed<T>: the counter itself
AsMut(s) == s

\* an Inner::deserialize_state that forgets to count
InnerDeserializeStateNoCount(s) == s

\* an Inner::deserialize_state that counts twice
InnerDeserializeStateTwice(s) == s + 2

\* impl DeserializeState<Seed> for Inner: seed.0 += 1
InnerDeserializeState(s) == s + 1

\* a deserialize_inner that decodes Inner without the seed
DeserializeInnerPlain(s) == s

\* a deserialize_inner that hands the seed to Inner twice
DeserializeInnerTwice(s) == InnerDeserializeState(InnerDeserializeState(AsMut(s)))

\* fn deserialize_inner: Inner::deserialize_state(seed.as_mut(), deserializer)
DeserializeInner(s) == InnerDeserializeState(AsMut(s))

\* fn deserialize_nested_seed: seed.1.clone().deserialize(deserializer)
DeserializeNestedSeed(s) == s

FieldsFrame(t, v) ==
    [kind |-> "fields", ty |-> TypeName(t), variant |-> v, idx |-> 1, elem |-> ElemType(t)]

SeqFrame(t, n, s) ==
    [kind |-> "seq", elem |-> t, len |-> n, remaining |-> n, start |-> s]

\* one visit of a leaf: which field, how the seed reached it, the seed before
\* and after
Visit(ty, variant, name, mode, before, after) ==
    [ty |-> ty, variant |-> variant, field |-> name, mode |-> mode,
     before |-> before, after |-> after]

FieldsTop == status = "running" /\ stack # <<>> /\ Top.kind = "fields"

CurrentField == Fields(Top.ty, Top.variant)[Top.idx]

FieldAt(mode, with) ==
    /\ FieldsTop
    /\ Top.idx <= Len(Fields(Top.ty, Top.variant))
    /\ CurrentField.mode = mode
    /\ CurrentField.with = with

Advance(f) == [f EXCEPT !.idx = f.idx + 1]

FieldVisit(after) ==
    Visit(Top.ty, Top.variant, CurrentField.name,
          IF CurrentField.with = "" THEN CurrentField.mode ELSE CurrentField.with,
          seed, after)

\* T::deserialize_state(seed, deserializer) for a value of type t, called with
\* the frames below: Inner counts, a derived type starts visiting its fields
EnterValue(t, below, name) ==
    IF t = InnerType
    THEN /\ seed' = InnerDeserializeState(seed)
         /\ stack' = below
         /\ log' = Append(log, Visit("Vec", "", name, "deserialize_state",
                                     seed, InnerDeserializeState(seed)))
    ELSE /\ \E v \in Variants(TypeName(t)) : stack' = Append(below, FieldsFrame(t, v))
         /\ UNCHANGED <<seed, log>>

\* assert_de_seed_tokens(&mut seed, ..): T::deserialize_state(&mut seed, de)
StartDeserializeState ==
    /\ status = "idle"
    /\ \E t \in Types \ {InnerType}, s \in 0..MaxSeed0 : \E v \in Variants(TypeName(t)) :
        /\ root' = t
        /\ seed0' = s
        /\ seed' = s
        /\ stack' = <<FieldsFrame(t, v)>>
    /\ status' = "running"
    /\ UNCHANGED <<result, log, nodeVars>>

\* #[serde(deserialize_state)]: the field's own deserialize_state gets the seed
VisitStateField ==
    /\ FieldAt("deserialize_state", "")
    /\ seed' = InnerDeserializeState(seed)
    /\ log' = Append(log, FieldVisit(seed'))
    /\ stack' = ReplaceTop(stack, Advance(Top))
    /\ UNCHANGED <<status, result, nodeVars, seed0, root>>

\* #[serde(deserialize_state_with = "deserialize_inner")]
VisitWithInner ==
    /\ FieldAt("deserialize_state_with", "deserialize_inner")
    /\ seed' = DeserializeInner(seed)
    /\ log' = Append(log, FieldVisit(seed'))
    /\ stack' = ReplaceTop(stack, Advance(Top))
    /\ UNCHANGED <<status, result, nodeVars, seed0, root>>

\* #[serde(deserialize_state_with = "deserialize_nested_seed")]
VisitWithNestedSeed ==
    /\ FieldAt("deserialize_state_with", "deserialize_nested_seed")
    /\ seed' = DeserializeNestedSeed(seed)
    /\ log' = Append(log, FieldVisit(seed'))
    /\ stack' = ReplaceTop(stack, Advance(Top))
    /\ UNCHANGED <<status, result, nodeVars, seed0, root>>

\* a field without attribute: the ordinary Deserialize of its type
VisitPlain ==
    /\ FieldAt("plain", "")
    /\ log' = Append(log, FieldVisit(seed))
    /\ stack' = ReplaceTop(stack, Advance(Top))
    /\ UNCHANGED <<status, result, nodeVars, seedVars>>

\* fn deserialize_vec: deserialize_seq(SeqSeedEx::new(&mut seed.0, ..)); the
\* stream announces the sequence
VisitWithVec ==
    /\ FieldAt("deserialize_state_with", "deserialize_vec")
    /\ \E n \in 0..MaxSeqLen :
        stack' = Append(ReplaceTop(stack, Advance(Top)), SeqFrame(Top.elem, n, seed))
    /\ UNCHANGED <<status, result, log, nodeVars, seedVars>>

SeqTop == status = "running" /\ stack # <<>> /\ Top.kind = "seq"

\* SeqSeedEx::visit_seq: the next element, decoded with the same seed
SeqNext ==
    /\ SeqTop
    /\ Top.remaining > 0
    /\ EnterValue(Top.elem,
                  ReplaceTop(stack, [Top EXCEPT !.remaining = Top.remaining - 1]),
                  "elem")
    /\ UNCHANGED <<status, result, nodeVars, seed0, root>>

\* SeqSeedEx::visit_seq: SeqEnd, the collected Vec is returned
SeqEnd ==
    /\ SeqTop
    /\ Top.remaining = 0
    /\ stack' = Pop(stack)
    /\ UNCHANGED <<status, result, log, nodeVars, seedVars>>

\* the derived visitor has decoded every field and returns the value
EndFields ==
    /\ FieldsTop
    /\ Top.idx > Len(Fields(Top.ty, Top.variant))
    /\ stack' = Pop(stack)
    /\ IF Len(stack) = 1
       THEN status' = "Ok" /\ result' = OkResult(root)
       ELSE UNCHANGED <<status, result>>
    /\ UNCHANGED <<log, nodeVars, seedVars>>

NextSeed ==
    \/ StartDeserializeState
    \/ VisitStateField
    \/ VisitWithInner
    \/ VisitWithNestedSeed
    \/ VisitPlain
    \/ VisitWithVec
    \/ SeqNext
    \/ SeqEnd
    \/ EndFields

SpecSeed == Init /\ [][NextSeed]_vars

----------------------------------------------------------------------------
(* serialize_seed over the Cell<i32> seed: derive(SerializeSeed) on a struct *)
(* of Inner fields, each with one of the serialize attributes                *)

\* most fields of a struct that is serialized
MaxFields == 4

\* #[serde(serialize_seed)] or #[serde(seed)], #[serde(serialize_seed_with =
\* "serialize_inner")], or no attribute
SerModes == {"serialize_seed", "serialize_seed_with", "plain"}

SerSchemas == UNION {[1..n -> SerModes] : n \in 1..MaxFields}

\* struct Struct { value, value2, value3, value4 } of the crate documentation
DocStruct == <<"serialize_seed", "serialize_seed", "plain", "serialize_seed_with">>

\* impl SerializeSeed for Inner: seed.set(seed.get() + 1)
InnerSerializeSeed(s) == s + 1

\* a serialize_inner that adds what Inner::serialize_seed adds
SerializeInnerOne(s) == s + 1

\* fn serialize_inner: seed.set(seed.get() + 10)
SerializeInner(s) == s + 10

SerFrame == [kind |-> "ser", idx |-> 1]

SerAt(mode) ==
    /\ status = "running" /\ stack # <<>> /\ Top.kind = "ser"
    /\ Top.idx <= Len(root)
    /\ root[Top.idx] = mode

SerVisit(after) == Visit("Struct", "", Top.idx, root[Top.idx], seed, after)

\* s.serialize_seed(&mut serializer, &seed) on a struct with the fields fs
StartSerialize ==
    /\ status = "idle"
    /\ \E fs \in SerSchemas, s \in 0..MaxSeed0 :
        /\ root' = fs
        /\ seed0' = s
        /\ seed' = s
    /\ stack' = <<SerFrame>>
    /\ status' = "running"
    /\ UNCHANGED <<result, log, nodeVars>>

\* a field with serialize_seed (or seed): Inner::serialize_seed(&seed)
SerializeSeedField ==
    /\ SerAt("serialize_seed")
    /\ seed' = InnerSerializeSeed(seed)
    /\ log' = Append(log, SerVisit(seed'))
    /\ stack' = ReplaceTop(stack, Advance(Top))
    /\ UNCHANGED <<status, result, nodeVars, seed0, root>>

\* a field with serialize_seed_with = "serialize_inner"
SerializeWithField ==
    /\ SerAt("serialize_seed_with")
    /\ seed' = SerializeInner(seed)
    /\ log' = Append(log, SerVisit(seed'))
    /\ stack' = ReplaceTop(stack, Advance(Top))
    /\ UNCHANGED <<status, result, nodeVars, seed0, root>>

\* a field without attribute: Inner::serialize
SerializePlainField ==
    /\ SerAt("plain")
    /\ log' = Append(log, SerVisit(seed))
    /\ stack' = ReplaceTop(stack, Advance(Top))
    /\ UNCHANGED <<status, result, nodeVars, seedVars>>

\* SerializeStruct::end
EndSerialize ==
    /\ status = "running" /\ stack # <<>> /\ Top.kind = "ser"
    /\ Top.idx > Len(root)
    /\ stack' = <<>>
    /\ status' = "Ok"
    /\ result' = OkResult(root)
    /\ UNCHANGED <<log, nodeVars, seedVars>>

NextSer ==
    \/ StartSerialize
    \/ SerializeSeedField
    \/ SerializeWithField
    \/ SerializePlainField
    \/ EndSerialize

SpecSer == Init /\ [][NextSer]_vars

----------------------------------------------------------------------------
(* Properties of Node::deserialize, checked under Spec *)

IsRef(k) == log[k].ev = "ref"

\* a Marked(id) variant completed before entry k of the log
MarkedBefore(k, id) == {j \in 1..(k - 1) : log[j].ev = "marked" /\ log[j].id = id}

Constructed == {k \in 1..Len(log) : log[k].ev \in {"plain", "marked"}}

\* C1: a Reference(id) decoded after a Marked(id) node returns the very
\* instance constructed for that Marked node, for every such Marked node, and
\* only Plain and Marked variants allocate (a Reference never does).
ReferenceIsTheMarkedInstance ==
    /\ \A k \in 1..Len(log) : IsRef(k) =>
          \A j \in MarkedBefore(k, log[k].id) : log[k].addr = log[j].addr
    /\ Len(heap) = Cardinality(Constructed)

\* C2: a Reference(id) with no Marked(id) completed earlier in the same call
\* ends the call with the error "missing id" carrying that id; the Reference
\* yields no node and is the last thing the call decodes.
MissingReferenceFails ==
    \A k \in 1..Len(log) : (IsRef(k) /\ MarkedBefore(k, log[k].id) = {}) =>
        /\ log[k].addr = Null
        /\ k = Len(log)
        /\ status = "Err"
        /\ result = MissingId(log[k].id)

MissingReferenceWitness ==
    /\ status = "Err"
    /\ result = MissingId(0)
    /\ Len(log) > 1
    /\ log[Len(log)] = RefEntry(0, Null)

\* a visit that ended in an error: a Reference that found no entry, or a
\* token the deserializer rejected
Failed(k) == (IsRef(k) /\ log[k].addr = Null) \/ log[k].ev = "invalid"

RegistryAppendOnly ==
    [][status = "running" =>
         \A id \in DOMAIN map : id \in DOMAIN map' /\ map'[id] = map[id]]_vars

\* C8: every top-level call starts from an empty registry, and an id
\* registered only by an earlier call is not in the registry and is never
\* resolved by a Reference of this call.
RegistryFreshPerCall ==
    /\ (status = "running" /\ log = <<>>) => map = IdToNodeDefault
    /\ \A id \in prevMarked \ MarkedIds(log) : ~MapContains(map, id)
    /\ \A k \in 1..Len(log) : (IsRef(k) /\ log[k].addr # Null) =>
          MarkedBefore(k, log[k].id) # {}

\* id 0 was registered by an earlier call and Reference(0) fails in this one
RegistryFreshWitness ==
    /\ 0 \in prevMarked
    /\ status = "Err"
    /\ result = MissingId(0)
    /\ log = <<RefEntry(0, Null)>>

\* C10: the registry holds exactly the ids of the Marked variants already
\* completed; children are constructed before their parent; a Reference(id)
\* inside the Marked(id) that is the first to define id fails, and a
\* Reference(id) after a completed Marked(id) succeeds.
InsertAfterConstruction ==
    /\ DOMAIN map = MarkedIds(log)
    /\ \A a \in 1..Len(heap) : heap[a].left < a /\ heap[a].right < a
    /\ \A k \in 1..Len(log) : IsRef(k) =>
          /\ (log[k].id \in log[k].open /\ MarkedBefore(k, log[k].id) = {}) =>
                (log[k].addr = Null /\ status = "Err")
          /\ MarkedBefore(k, log[k].id) # {} => log[k].addr # Null

\* a Reference(id) met while the Marked(id) around it is still being decoded
SelfReferenceWitness ==
    /\ status = "Err"
    /\ Len(log) > 0
    /\ IsRef(Len(log))
    /\ log[Len(log)].id \in log[Len(log)].open
    /\ log[Len(log)].addr = Null

----------------------------------------------------------------------------
(* Properties of deserialize_state over the counter seed, checked under     *)
(* SpecSeed                                                                 *)

\* the caller asked for t (root holds no type before the call starts)
RootIs(t) == status # "idle" /\ root = t

\* the visits of SeedStruct's three fields, in declaration order, from s
SeedStructVisits(s) ==
    <<Visit("SeedStruct", "", "value", "deserialize_state", s, s + 1),
      Visit("SeedStruct", "", "value2", "deserialize_inner", s + 1, s + 2),
      Visit("SeedStruct", "", "value3", "plain", s + 2, s + 2)>>

\* C3: decoding SeedStruct visits value, value2, value3 in this order; value
\* and value2 each pass the seed to Inner once (+1 each), value3 leaves it
\* alone; from seed 0 the call ends with seed 2. The documented Struct, whose
\* value and value2 take the seed and whose value3 and value4 do not, ends 2
\* above its initial seed as well.
StructFieldsInOrder ==
    /\ RootIs(Type(0, "SeedStruct")) =>
          /\ Len(log) <= 3
          /\ log = SubSeq(SeedStructVisits(seed0), 1, Len(log))
          /\ status = "Ok" => (Len(log) = 3 /\ seed = seed0 + 2)
          /\ (status = "Ok" /\ seed0 = 0) => seed = 2
    /\ (RootIs(Type(0, "Struct")) /\ status = "Ok") =>
          /\ [k \in 1..Len(log) |-> log[k].field] = <<"value", "value2", "value3", "value4">>
          /\ seed = seed0 + 2

StructFieldsWitness ==
    /\ RootIs(Type(0, "SeedStruct"))
    /\ status = "Ok"
    /\ seed0 = 0
    /\ seed = 2
    /\ Len(log) = 3

\* the last n entries of the log
LastVisits(n) == SubSeq(log, Len(log) - n + 1, Len(log))

\* C5: while a sequence of Inner elements is decoded, the seed is the seed at
\* the start of the sequence plus the number of elements decoded so far, and
\* element i saw the increments of the elements before it; when all M
\* elements are decoded the seed is M higher than at the start.
SeqReusesContext ==
    (status = "running" /\ stack # <<>> /\ Top.kind = "seq" /\ Top.elem = InnerType) =>
        LET done == Top.len - Top.remaining IN
        /\ seed = Top.start + done
        /\ Len(log) >= done
        /\ \A i \in 1..done :
              /\ LastVisits(done)[i].before = Top.start + i - 1
              /\ LastVisits(done)[i].after = Top.start + i

SeqReusesWitness ==
    /\ status = "running" /\ stack # <<>> /\ Top.kind = "seq" /\ Top.elem = InnerType
    /\ Top.len = 2
    /\ Top.remaining = 0
    /\ seed = seed0 + 2

\* the visits that handed the seed to Inner::deserialize_state
SeededVisits ==
    {k \in 1..Len(log) : log[k].mode \in {"deserialize_state", "deserialize_inner"}}

\* C9: at every point of the traversal, whatever the nesting, the seed is
\* the initial seed plus the number of Inner leaves decoded with it so far,
\* and each visit starts from the seed the visit before it left.
PreOrderAccumulation ==
    /\ status \in {"running", "Ok"} => seed = seed0 + Cardinality(SeededVisits)
    /\ \A k \in 1..Len(log) :
          /\ log[k].before = (IF k = 1 THEN seed0 ELSE log[k - 1].after)
          /\ log[k].after = log[k].before + (IF k \in SeededVisits THEN 1 ELSE 0)

\* a sequence of two SeedStruct inside VecNewtype: four leaves, three levels
PreOrderWitness ==
    /\ RootIs(Type(1, "SeedStruct"))
    /\ status = "Ok"
    /\ seed0 = 1
    /\ Len(log) = 6
    /\ seed = 5

\* the visits of the fields of one variant of Enum, in declared order, from s
EnumVisits(v, s) ==
    IF v = "Inner"
    THEN <<Visit("Enum", "Inner", "0", "deserialize_inner", s, s + 1)>>
    ELSE <<Visit("Enum", "Inner2", "0", "plain", s, s),
           Visit("Enum", "Inner2", "1", "deserialize_inner", s, s + 1)>>

\* C11: decoding Enum visits the fields of the selected variant alone, in
\* that variant's declared order: Inner visits its one field (+1), Inner2
\* its u32 (seed unchanged) and then its Inner (+1); either variant ends 1
\* above the initial seed, so 1 from seed 0.
EnumVisitsSelectedVariant ==
    RootIs(Type(0, "Enum")) =>
        \E v \in Variants("Enum") :
            /\ stack # <<>> => (Len(stack) = 1 /\ Top.ty = "Enum" /\ Top.variant = v)
            /\ Len(log) <= Len(EnumVisits(v, seed0))
            /\ log = SubSeq(EnumVisits(v, seed0), 1, Len(log))
            /\ status = "Ok" => (log = EnumVisits(v, seed0) /\ seed = seed0 + 1)
            /\ (status = "Ok" /\ seed0 = 0) => seed = 1

\* Enum::Inner2(u32, Inner) decoded from seed 0
EnumInner2Witness ==
    /\ RootIs(Type(0, "Enum"))
    /\ status = "Ok"
    /\ seed0 = 0
    /\ seed = 1
    /\ Len(log) = 2
    /\ log[1].variant = "Inner2"
    /\ log[1].mode = "plain"

----------------------------------------------------------------------------
(* Properties of serialize_seed, checked under SpecSer *)

\* the struct of three fields the claim describes
ThreeFields == <<"serialize_seed", "serialize_seed_with", "plain">>

\* C4 as stated: the struct value (+1), value2 (+10), value3 (+0) serialized
\* from seed 0 ends with seed 12.
ThreeFieldsEndAtTwelve ==
    (RootIs(ThreeFields) /\ status = "Ok" /\ seed0 = 0) => seed = 12

\* C4 amended: the three-field struct ends 11 above the initial seed (11 from
\* 0); it is the documented Struct of four fields, value (+1), value2 (+1),
\* value3 (+0), value4 (+10), that ends 12 above it (12 from 0).
SerializeSeedTotals ==
    /\ (RootIs(ThreeFields) /\ status = "Ok") => seed = seed0 + 11
    /\ (RootIs(DocStruct) /\ status = "Ok") => seed = seed0 + 12
    /\ (RootIs(DocStruct) /\ status = "Ok" /\ seed0 = 0) => seed = 12

SerializeSeedWitness ==
    /\ RootIs(DocStruct)
    /\ status = "Ok"
    /\ seed0 = 0
    /\ seed = 12
    /\ Len(log) = 4

====
